---- MODULE Spec2Model ----
(***************************************************************************)
(* Model of scripts/schedule_fetcher.py: ScheduleFetcher.run and the       *)
(* functions it calls (_verify_filesystem_permissions,                     *)
(* _fetch_sport_schedule, _call_claude_api, _download_artifact,            *)
(* _generate_html_page, _cleanup_tmp) and main.  The external API, the     *)
(* filesystem and the prompt template are the environment: every outcome   *)
(* they can produce is a nondeterministic choice.                          *)
(***************************************************************************)
EXTENDS Integers, Sequences, FiniteSets, TLC

\* ---------------------------------------------------------------- bounds
\* number of fenced blocks in a text given to _extract_code_blocks
MaxBlocks == 2
\* spaces put before and after a Location or Result given to format_game_row
MaxPad == 1
\* number of sports in the list given to generate_html
MaxPageSports == 2
\* number of configured sports (a prefix of the built-in default list)
NumSports == 2
\* tool_use responses may carry text blocks only in the first MaxRichIter
\* iterations and in the last one (keeps the conversation contents finite)
MaxRichIter == 1

\* ------------------------------------------------------ program constants
max_iterations == 25
max_retries == 5
delay == 3
backoff_base == 60
delay_between_sports == 30

DefaultSports ==
  << [name |-> "Football",           filename |-> "Football.csv"],
     [name |-> "Baseball",           filename |-> "Baseball.csv"],
     [name |-> "Softball",           filename |-> "Softball.csv"],
     [name |-> "Men's Basketball",   filename |-> "MensBasketball.csv"],
     [name |-> "Women's Basketball", filename |-> "WomensBasketball.csv"],
     [name |-> "Volleyball",         filename |-> "Volleyball.csv"] >>

\* self.sports
sports == SubSeq(DefaultSports, 1, NumSports)

\* the directories _verify_filesystem_permissions checks, in order
directories_to_check == <<"output", "tmp", "logs">>

\* stop reasons the API can report; pause_turn stands for "some other stop reason"
StopReasons == {"end_turn", "max_tokens", "tool_use", "pause_turn"}

\* a filename the configuration does not mention
StrayFile == "Notes.csv"

\* save_html: the default name of the page file, in output_dir
PageFile == "index.html"

\* the recognized fenced blocks of a response text, as the filenames they carry
FileLists(i) == { <<>>, <<sports[i].filename>>, <<StrayFile>>,
                  <<sports[i].filename, StrayFile>>, <<PageFile>> }

\* an entry's content: a prompt, the synthetic follow-up, or what a response held
\* (a response is identified by its sport and its ordinal in the conversation)
Content(kind, sp, ord, hasText, files) ==
  [kind |-> kind, sport |-> sp, ordinal |-> ord, hasText |-> hasText, files |-> files]

\* faulty variant: the prompt built for the first sport is sent for every sport
PromptContentFirstSport(i) == Content("prompt", 1, 0, FALSE, <<>>)

\* the prompt of a sport: the template with the sport's name filled in
PromptContent(i) == Content("prompt", i, 0, FALSE, <<>>)
FollowUpContent == Content("followup", 0, 0, FALSE, <<>>)

\* a combined text: whether there is any, and its recognized blocks in order
NoText == [hasText |-> FALSE, files |-> <<>>]

NoResponse == [stop_reason |-> "none",
               content |-> Content("none", 0, 0, FALSE, <<>>)]

VARIABLES
  pc,                \* position in main / run / _fetch_sport_schedule / _call_claude_api
  dirExists,         \* environment: directories that exist
  dirWritable,       \* environment: directories os.access reports writable
  writeTestOk,       \* environment: the .write_test file can be written and removed
  templateExists,    \* environment: prompt-sport-template.txt exists
  outputFiles,       \* names of the files present in output_dir
  index,             \* run: position in self.sports (1-based)
  successful_sports, \* run: counter
  fetchResult,       \* value _fetch_sport_schedule returned for the current sport
  messages,          \* _call_claude_api: the conversation
  iteration,         \* _call_claude_api: loop variable
  retry,             \* _call_claude_api: retry loop variable
  response,          \* _call_claude_api: last response received
  driverOutcome,     \* how _call_claude_api ended: "none", "returned", "raised"
  driverError,       \* the exception it raised: "none", "RateLimitError", "APIError"
  driverReturn,      \* the response it returned
  iterSleeps,        \* sleeps taken since the current iteration began
  nResponses,        \* responses received in the current conversation
  toolUses,          \* tool_use responses received in the current conversation
  afterFinal,        \* API calls, sleeps and appends made after a non-tool_use response
  earlierBlocks,     \* recognized blocks of the assistant entries appended so far
  rejectedEarlier,   \* an earlier iteration of this conversation was rate-limited
  apiCalled,         \* some API call has been issued in this run
  fetchCalls,        \* per sport: calls of _fetch_sport_schedule
  driverCalls,       \* per sport: calls of _call_claude_api
  sportStatus,       \* per sport: "pending", "ok", "failed"
  sportCause,        \* per sport: what went wrong in its fetch, "none" if nothing
  runLog,            \* run-level events in order
  inspection,        \* text written to the inspection file by the current fetch
  extractInput,      \* text handed to _extract_code_blocks by the current fetch
  htmlWritten,       \* the page file was written in this run
  verifyFailed,      \* _verify_filesystem_permissions raised
  runResult,         \* value run() returned
  exitCode,          \* process exit code, -1 while running
  blocks,            \* _extract_code_blocks: the fenced blocks the input text is made of
  text,              \* _extract_code_blocks: the input text
  pairs,             \* _extract_code_blocks: the (filename, content) pairs returned
  extracted,         \* _extract_code_blocks has returned
  game,              \* format_game_row: the row dictionary
  row,               \* format_game_row: the table row returned
  sports_config,     \* generate_html: the sports to include
  csvFiles,          \* generate_html: per sport, the lines of its CSV file or "absent"
  sections,          \* generate_html: the sport sections generated so far
  pageState          \* generate_html: "idle", "sections", "done" or "raised"

mainVars == << pc, dirExists, dirWritable, writeTestOk, templateExists, outputFiles,
           index, successful_sports, fetchResult, messages, iteration, retry,
           response, driverOutcome, driverError, driverReturn, iterSleeps,
           nResponses, toolUses, afterFinal, apiCalled, fetchCalls, driverCalls,
           sportStatus, sportCause, runLog, htmlWritten, verifyFailed, runResult, exitCode,
           earlierBlocks, rejectedEarlier, inspection, extractInput >>

\* the state of the functions studied on their own
extractVars == << blocks, text, pairs, extracted >>
rowVars == << game, row >>
pageVars == << sports_config, csvFiles, sections, pageState >>
pureVars == << extractVars, rowVars, pageVars >>

vars == << mainVars, pureVars >>

envVars == << dirExists, dirWritable, writeTestOk, templateExists >>
driverVars == << messages, iteration, retry, response, driverOutcome, driverError,
                 driverReturn, iterSleeps, nResponses, toolUses, afterFinal,
                 earlierBlocks, rejectedEarlier >>
\* what the current fetch's _download_artifact did with the text
downloadVars == << inspection, extractInput >>

Range(s) == { s[i] : i \in 1..Len(s) }
Dirs == Range(directories_to_check)
Event(ev, arg) == [ev |-> ev, arg |-> arg]

\* run() has not begun: nothing fetched, no conversation, nothing logged
RunNotBegun ==
  /\ pc = "verify"
  /\ index = 1
  /\ successful_sports = 0
  /\ fetchResult = FALSE
  /\ messages = <<>>
  /\ iteration = 0
  /\ retry = 0
  /\ response = NoResponse
  /\ driverOutcome = "none"
  /\ driverError = "none"
  /\ driverReturn = NoResponse
  /\ iterSleeps = <<>>
  /\ nResponses = 0
  /\ toolUses = 0
  /\ afterFinal = 0
  /\ apiCalled = FALSE
  /\ fetchCalls = [i \in 1..NumSports |-> 0]
  /\ driverCalls = [i \in 1..NumSports |-> 0]
  /\ sportStatus = [i \in 1..NumSports |-> "pending"]
  /\ sportCause = [i \in 1..NumSports |-> "none"]
  /\ runLog = <<>>
  /\ htmlWritten = FALSE
  /\ verifyFailed = FALSE
  /\ runResult = FALSE
  /\ exitCode = -1
  /\ earlierBlocks = <<>>
  /\ rejectedEarlier = FALSE
  /\ inspection = NoText
  /\ extractInput = NoText

\* no function is being studied on its own
ExtractIdle == blocks = <<>> /\ text = <<>> /\ pairs = <<>> /\ extracted = FALSE
RowIdle == game = << >> /\ row = [classes |-> <<>>, cells |-> <<>>]
PageIdle == sports_config = <<>> /\ csvFiles = <<>> /\ sections = <<>> /\ pageState = "idle"

Init ==
  /\ dirExists \in SUBSET Dirs
  /\ dirWritable \in SUBSET Dirs
  /\ writeTestOk \in BOOLEAN
  /\ templateExists \in BOOLEAN
  /\ outputFiles \in SUBSET {sports[1].filename}
  /\ RunNotBegun
  /\ ExtractIdle
  /\ RowIdle
  /\ PageIdle

\* faulty variant: the write test in the output directory is left out
PermissionsOkNoWriteTest ==
  \A d \in {"output", "tmp", "logs"} : d \in dirExists /\ d \in dirWritable

\* ------------------------------------------- _verify_filesystem_permissions
\* TRUE when no check raises: every directory exists and is writable, and the
\* write test in the output directory succeeds
PermissionsOk ==
  /\ \A d \in Dirs : d \in dirExists /\ d \in dirWritable
  /\ writeTestOk

\* run(): the verification step; a raise is caught by run's except, run returns False
VerifyFilesystemPermissions ==
  /\ pc = "verify"
  /\ IF PermissionsOk
       THEN /\ pc' = "loop"
            /\ UNCHANGED << verifyFailed, runResult >>
       ELSE /\ pc' = "exit"
            /\ verifyFailed' = TRUE
            /\ runResult' = FALSE
  /\ UNCHANGED << envVars, pureVars, downloadVars, outputFiles, index, successful_sports, fetchResult,
                  driverVars, apiCalled, fetchCalls, driverCalls, sportStatus,
                  sportCause, runLog, htmlWritten, exitCode >>

runVars == << index, successful_sports, sportStatus >>
endVars == << htmlWritten, verifyFailed, runResult, exitCode >>
Failed(cause) == [sportCause EXCEPT ![index] = cause]

\* --------------------------------------------------- _fetch_sport_schedule
\* run(): the loop body calls _fetch_sport_schedule, which reads the prompt
\* template; a missing template raises FileNotFoundError, caught by the except
\* of _fetch_sport_schedule, which returns False
FetchSportSchedule ==
  /\ pc = "loop"
  /\ index <= Len(sports)
  /\ fetchCalls' = [fetchCalls EXCEPT ![index] = @ + 1]
  /\ IF templateExists
       THEN /\ pc' = "driver"
            /\ runLog' = runLog \o << Event("fetch", index), Event("prompt", index) >>
            /\ UNCHANGED << fetchResult, sportCause >>
       ELSE /\ pc' = "after_fetch"
            /\ runLog' = Append(runLog, Event("fetch", index))
            /\ sportCause' = Failed("no_template")
            /\ fetchResult' = FALSE
  /\ UNCHANGED << envVars, pureVars, downloadVars, outputFiles, runVars, driverVars, apiCalled,
                  driverCalls, endVars >>

\* -------------------------------------------------------- _call_claude_api
\* messages = [{"role": "user", "content": prompt}]
CallClaudeApi ==
  /\ pc = "driver"
  /\ driverCalls' = [driverCalls EXCEPT ![index] = @ + 1]
  /\ runLog' = Append(runLog, Event("driver", index))
  /\ messages' = << [role |-> "user", content |-> PromptContent(index)] >>
  /\ iteration' = 0
  /\ retry' = 0
  /\ response' = NoResponse
  /\ driverOutcome' = "none"
  /\ driverError' = "none"
  /\ driverReturn' = NoResponse
  /\ iterSleeps' = <<>>
  /\ nResponses' = 0
  /\ toolUses' = 0
  /\ afterFinal' = 0
  /\ earlierBlocks' = <<>>
  /\ rejectedEarlier' = FALSE
  /\ pc' = "iter"
  /\ UNCHANGED << envVars, pureVars, downloadVars, outputFiles, runVars, fetchResult, apiCalled,
                  fetchCalls, endVars >>
  /\ UNCHANGED sportCause

\* faulty variant: the loop has no ceiling
LoopContinuesForever(it) == it >= 0

\* for iteration in range(max_iterations)
LoopContinues(it) == it < max_iterations

\* faulty variant: the fixed delay is taken before the first iteration too
NeedsIterationDelayAlways(it) == it >= 0

\* if iteration > 0: time.sleep(delay)
NeedsIterationDelay(it) == it > 0

\* a non-tool_use response has been received in this conversation
FinalSeen == nResponses > toolUses
Late == IF FinalSeen THEN 1 ELSE 0

\* faulty variant: the attempt counter is not reset when an iteration begins
IterationStartKeepsRetry ==
  /\ pc = "iter"
  /\ LoopContinues(iteration)
  /\ IF NeedsIterationDelay(iteration)
       THEN /\ iterSleeps' = << delay >>
            /\ afterFinal' = afterFinal + Late
       ELSE /\ iterSleeps' = <<>>
            /\ UNCHANGED afterFinal
  /\ retry' = retry
  /\ rejectedEarlier' = (rejectedEarlier \/ retry > 0)
  /\ pc' = "call"
  /\ UNCHANGED << envVars, pureVars, downloadVars, earlierBlocks, outputFiles, runVars, fetchResult, messages, iteration,
                  response, driverOutcome, driverError, driverReturn, nResponses,
                  toolUses, apiCalled, fetchCalls, driverCalls, runLog, endVars >>
  /\ UNCHANGED sportCause

\* top of the loop body: the fixed delay, then the retry loop begins
IterationStart ==
  /\ pc = "iter"
  /\ LoopContinues(iteration)
  /\ IF NeedsIterationDelay(iteration)
       THEN /\ iterSleeps' = << delay >>
            /\ afterFinal' = afterFinal + Late
       ELSE /\ iterSleeps' = <<>>
            /\ UNCHANGED afterFinal
  /\ retry' = 0
  /\ rejectedEarlier' = (rejectedEarlier \/ retry > 0)
  /\ pc' = "call"
  /\ UNCHANGED << envVars, pureVars, downloadVars, earlierBlocks, outputFiles, runVars, fetchResult, messages, iteration,
                  response, driverOutcome, driverError, driverReturn, nResponses,
                  toolUses, apiCalled, fetchCalls, driverCalls, runLog, endVars >>
  /\ UNCHANGED sportCause

\* the text blocks a response may carry: none, or text with the given recognized
\* blocks; in the first MaxRichIter iterations and in the last one a response
\* has every text (a tool_use response: none or the sport's own file), in the
\* other iterations a tool_use response has no text and another response has
\* none or the sport's own file
ResponseTexts(sr, it) ==
  LET own == << TRUE, << sports[index].filename >> >>
      rich == it < MaxRichIter \/ it = max_iterations - 1
  IN IF sr = "tool_use"
       THEN IF rich THEN { << FALSE, <<>> >>, own } ELSE { << FALSE, <<>> >> }
       ELSE IF rich THEN { << FALSE, <<>> >> } \cup { << TRUE, f >> : f \in FileLists(index) }
                    ELSE { << FALSE, <<>> >>, own }

\* stream.get_final_message() succeeds: break out of the retry loop (after a
\* response that ends the loop, retry and the sleeps are not read again)
ApiCallResponds ==
  /\ pc = "call"
  /\ \E sr \in StopReasons : \E t \in ResponseTexts(sr, iteration) :
       /\ response' = [stop_reason |-> sr,
                       content |-> Content("response", index, nResponses + 1,
                                           t[1], t[2])]
       /\ toolUses' = toolUses + (IF sr = "tool_use" THEN 1 ELSE 0)
       /\ IF sr = "tool_use"
            THEN UNCHANGED << retry, iterSleeps >>
            ELSE retry' = 0 /\ iterSleeps' = <<>>
  /\ nResponses' = nResponses + 1
  /\ afterFinal' = afterFinal + Late
  /\ apiCalled' = TRUE
  /\ pc' = "inspect"
  /\ UNCHANGED << envVars, pureVars, downloadVars, rejectedEarlier, earlierBlocks, outputFiles, runVars, fetchResult, messages, iteration,
                  driverOutcome, driverError, driverReturn,
                  fetchCalls, driverCalls, runLog, endVars >>
  /\ UNCHANGED sportCause

\* if retry < max_retries - 1
RetryAllowed(r) == r < max_retries - 1

\* faulty variant: the wait grows linearly instead of doubling
BackoffWaitLinear(r) == backoff_base * (r + 1)

\* wait_time = 60 * (2 ** retry)
BackoffWait(r) == backoff_base * 2^r

\* except anthropic.RateLimitError: back off and retry, or re-raise on the last
\* attempt; the raise passes the driver's except (log, raise) and is caught by
\* _fetch_sport_schedule, which returns False
ApiCallRateLimited ==
  /\ pc = "call"
  /\ apiCalled' = TRUE
  /\ IF RetryAllowed(retry)
       THEN /\ iterSleeps' = Append(iterSleeps, BackoffWait(retry))
            /\ afterFinal' = afterFinal + 2 * Late
            /\ retry' = retry + 1
            /\ pc' = "call"
            /\ UNCHANGED << driverOutcome, driverError, fetchResult, sportCause >>
       ELSE /\ driverOutcome' = "raised"
            /\ driverError' = "RateLimitError"
            /\ sportCause' = Failed("rate_limited")
            /\ fetchResult' = FALSE
            /\ afterFinal' = afterFinal + Late
            /\ pc' = "after_fetch"
            /\ UNCHANGED << iterSleeps, retry >>
  /\ UNCHANGED << envVars, pureVars, downloadVars, rejectedEarlier, earlierBlocks, outputFiles, runVars, messages, iteration, response,
                  driverReturn, nResponses, toolUses, fetchCalls, driverCalls,
                  runLog, endVars >>

\* faulty variant: every exception of the API call is retried with backoff
ApiCallFailsRetried ==
  /\ pc = "call"
  /\ retry < max_retries - 1
  /\ apiCalled' = TRUE
  /\ sportCause' = [sportCause EXCEPT ![index] = "api_error"]
  /\ iterSleeps' = Append(iterSleeps, backoff_base * 2^retry)
  /\ retry' = retry + 1
  /\ pc' = "call"
  /\ UNCHANGED << envVars, pureVars, downloadVars, rejectedEarlier, earlierBlocks, outputFiles, runVars, fetchResult, messages, iteration,
                  response, driverOutcome, driverError, driverReturn, nResponses,
                  toolUses, afterFinal, fetchCalls, driverCalls, runLog, endVars >>

\* any other exception of the API call is not handled in the retry loop: it
\* passes the driver's except (log, raise) and is caught by _fetch_sport_schedule
ApiCallFails ==
  /\ pc = "call"
  /\ apiCalled' = TRUE
  /\ driverOutcome' = "raised"
  /\ driverError' = "APIError"
  /\ sportCause' = Failed("api_error")
  /\ fetchResult' = FALSE
  /\ afterFinal' = afterFinal + Late
  /\ pc' = "after_fetch"
  /\ UNCHANGED << envVars, pureVars, downloadVars, rejectedEarlier, earlierBlocks, outputFiles, runVars, messages, iteration, retry,
                  response, driverReturn, iterSleeps, nResponses, toolUses,
                  fetchCalls, driverCalls, runLog, endVars >>

\* response.stop_reason == "end_turn" or response.stop_reason == "max_tokens"
IsFinalAnswer(sr) == sr \in {"end_turn", "max_tokens"}

\* faulty variant: pause_turn is continued like tool_use
IsToolUseOrPause(sr) == sr \in {"tool_use", "pause_turn"}

\* response.stop_reason == "tool_use"
IsToolUse(sr) == sr = "tool_use"

\* return response: the caller gets the response, the conversation is dropped
DriverReturns ==
  /\ driverOutcome' = "returned"
  /\ driverReturn' = response
  /\ messages' = <<>>
  /\ retry' = 0
  /\ iterSleeps' = <<>>
  /\ rejectedEarlier' = FALSE
  /\ pc' = "download"
  /\ UNCHANGED << envVars, pureVars, downloadVars, earlierBlocks, outputFiles, runVars, fetchResult, iteration,
                  response, driverError, nResponses, toolUses,
                  afterFinal, apiCalled, fetchCalls, driverCalls, runLog, endVars >>
  /\ UNCHANGED sportCause

\* "Received final response"
ReturnFinal ==
  /\ pc = "inspect"
  /\ IsFinalAnswer(response.stop_reason)
  /\ DriverReturns

\* faulty variant: the follow-up user entry is forgotten
ToolUseEntriesNoFollowUp(resp) ==
  << [role |-> "assistant", content |-> resp.content] >>

\* the assistant entry and the synthetic user entry the tool_use branch appends
ToolUseEntries(resp) ==
  << [role |-> "assistant", content |-> resp.content],
     [role |-> "user", content |-> FollowUpContent] >>

\* the tool_use branch: append both entries and continue the loop
ContinueToolUse ==
  /\ pc = "inspect"
  /\ ~IsFinalAnswer(response.stop_reason)
  /\ IsToolUse(response.stop_reason)
  /\ messages' = messages \o ToolUseEntries(response)
  /\ earlierBlocks' = earlierBlocks \o response.content.files
  /\ afterFinal' = afterFinal + Late
  /\ iteration' = iteration + 1
  /\ pc' = "iter"
  /\ UNCHANGED << envVars, pureVars, downloadVars, rejectedEarlier, outputFiles, runVars, fetchResult, retry, response,
                  driverOutcome, driverError, driverReturn, iterSleeps, nResponses,
                  toolUses, apiCalled, fetchCalls, driverCalls, runLog, endVars >>
  /\ UNCHANGED sportCause

\* "Unexpected stop reason": the response is returned as it is
ReturnUnexpected ==
  /\ pc = "inspect"
  /\ ~IsFinalAnswer(response.stop_reason)
  /\ ~IsToolUse(response.stop_reason)
  /\ DriverReturns

\* faulty variant: exhausting the loop raises instead of returning
RaiseAtCeiling ==
  /\ pc = "iter"
  /\ iteration >= max_iterations
  /\ driverOutcome' = "raised"
  /\ driverError' = "MaxIterations"
  /\ sportCause' = Failed("api_error")
  /\ fetchResult' = FALSE
  /\ pc' = "after_fetch"
  /\ UNCHANGED << envVars, pureVars, downloadVars, rejectedEarlier, earlierBlocks, outputFiles, runVars, messages, iteration, retry,
                  response, driverReturn, iterSleeps, nResponses, toolUses,
                  afterFinal, apiCalled, fetchCalls, driverCalls, runLog, endVars >>

\* "Exceeded maximum iterations": the loop is exhausted, return response
ReturnAtCeiling ==
  /\ pc = "iter"
  /\ ~LoopContinues(iteration)
  /\ DriverReturns

\* the locals of _call_claude_api are gone once its caller has used the result
DriverFrameDropped ==
  /\ messages' = <<>>
  /\ iteration' = 0
  /\ retry' = 0
  /\ response' = NoResponse
  /\ driverOutcome' = "none"
  /\ driverError' = "none"
  /\ driverReturn' = NoResponse
  /\ iterSleeps' = <<>>
  /\ nResponses' = 0
  /\ toolUses' = 0
  /\ afterFinal' = 0
  /\ rejectedEarlier' = FALSE

\* ------------------------------------------------------ _download_artifact
\* faulty variant: the text of every assistant entry of the conversation is
\* collected, not only that of the message handed over
CollectTextWholeConversation(message) ==
  [hasText |-> message.content.hasText \/ earlierBlocks # <<>>,
   files |-> earlierBlocks \o message.content.files]

\* all_text of message.content joined: the combined text of the message
CollectText(message) ==
  [hasText |-> message.content.hasText, files |-> message.content.files]

\* _extract_code_blocks on a combined text: the recognized blocks' filenames
ExtractCodeBlocks(content) == content.files

\* files_saved > 0
FetchSucceeded(files_saved) == files_saved > 0

\* faulty variant: a block is saved only when it carries the filename
\* configured for the sport being fetched
SavedNamesConfiguredOnly(files, k) ==
  { files[j] : j \in { m \in 1..k : files[m] = sports[index].filename } }

\* for filename, content in files: open(self.output_dir / filename, 'w'), for
\* the first k pairs: the names written
SavedNames(files, k) == { files[j] : j \in 1..k }

\* faulty variant: the inspection file is written only after the extraction,
\* and only when a block was found
DownloadStepsExtractFirst(i, n, k) ==
  << Event("extract", i) >> \o
  (IF n > 0 THEN << Event("artifact", i) >> ELSE <<>>) \o
  [j \in 1..k |-> Event("write", i)]

\* what _download_artifact does once the text is collected, in order: the
\* inspection file, the extraction (n blocks found), k files written
DownloadSteps(i, n, k) ==
  << Event("artifact", i), Event("extract", i) >> \o [j \in 1..k |-> Event("write", i)]

\* _fetch_sport_schedule after the driver returned: _download_artifact(response)
\* and the result.  No text block: 0 files.  Otherwise the inspection file is
\* written, the blocks are extracted and each file is written in order; an
\* OSError of open() leaves that file unwritten and is caught by the except of
\* _fetch_sport_schedule (False).
DownloadArtifact ==
  /\ pc = "download"
  /\ LET combined_text == CollectText(driverReturn)
         files == ExtractCodeBlocks(combined_text)
         Log(evs) == runLog \o << Event("download", index) >> \o evs
         steps(k) == DownloadSteps(index, Len(files), k)
     IN \/ /\ ~combined_text.hasText
           /\ runLog' = Log(<<>>)
           /\ fetchResult' = FetchSucceeded(0)
           /\ sportCause' = Failed("no_text")
           /\ UNCHANGED << outputFiles, inspection, extractInput >>
        \/ /\ combined_text.hasText
           /\ runLog' = Log(<<>>)
           /\ fetchResult' = FALSE
           /\ sportCause' = Failed("io_error")
           /\ UNCHANGED << outputFiles, inspection, extractInput >>
        \/ /\ combined_text.hasText
           /\ \E k \in 0..Len(files) :
                /\ outputFiles' = outputFiles \cup SavedNames(files, k)
                /\ runLog' = Log(steps(k))
                /\ inspection' = IF Event("artifact", index) \in Range(steps(k))
                                   THEN combined_text ELSE NoText
                /\ extractInput' = combined_text
                /\ fetchResult' = IF k = Len(files) THEN FetchSucceeded(k) ELSE FALSE
                /\ sportCause' = IF k < Len(files) THEN Failed("io_error")
                                 ELSE IF k = 0 THEN Failed("no_files")
                                 ELSE sportCause
  /\ DriverFrameDropped
  /\ pc' = "after_fetch"
  /\ UNCHANGED << envVars, pureVars, earlierBlocks, runVars, apiCalled, fetchCalls, driverCalls, endVars >>

\* faulty variant: the 0-based condition applied to the 1-based position
DelayAfterSportOffByOne(i) == i < Len(sports) - 1

\* ------------------------------------------------------------------- run()
\* index < len(self.sports) - 1, with index counted from 1 here
DelayAfterSport(i) == i < Len(sports)

\* faulty variant: a sport whose fetch failed is fetched again
RunAfterFetchRetriesFailed ==
  /\ pc = "after_fetch"
  /\ successful_sports' = successful_sports + (IF fetchResult THEN 1 ELSE 0)
  /\ sportStatus' = [sportStatus EXCEPT ![index] = IF fetchResult THEN "ok" ELSE "failed"]
  /\ runLog' = Append(runLog, Event("sleep", delay_between_sports))
  /\ index' = IF fetchResult THEN index + 1 ELSE index
  /\ fetchResult' = FALSE
  /\ DriverFrameDropped
  /\ earlierBlocks' = <<>>
  /\ inspection' = NoText
  /\ extractInput' = NoText
  /\ pc' = "loop"
  /\ UNCHANGED << envVars, pureVars, outputFiles, apiCalled, fetchCalls, driverCalls, endVars >>
  /\ UNCHANGED sportCause

\* the rest of the loop body: count the success, sleep unless this was the last sport
RunAfterFetch ==
  /\ pc = "after_fetch"
  /\ successful_sports' = successful_sports + (IF fetchResult THEN 1 ELSE 0)
  /\ sportStatus' = [sportStatus EXCEPT ![index] = IF fetchResult THEN "ok" ELSE "failed"]
  /\ runLog' = IF DelayAfterSport(index)
                 THEN Append(runLog, Event("sleep", delay_between_sports))
                 ELSE runLog
  /\ index' = index + 1
  /\ fetchResult' = FALSE
  /\ DriverFrameDropped
  /\ earlierBlocks' = <<>>
  /\ inspection' = NoText
  /\ extractInput' = NoText
  /\ pc' = "loop"
  /\ UNCHANGED << envVars, pureVars, outputFiles, apiCalled, fetchCalls, driverCalls, endVars >>
  /\ UNCHANGED sportCause

\* if successful_sports > 0
HtmlWanted == successful_sports > 0

\* faulty variant: the HTML step is taken as soon as one sport has been processed
AfterLoopEarly ==
  /\ pc = "loop"
  /\ index > 1
  /\ IF HtmlWanted
       THEN /\ runLog' = Append(runLog, Event("sleep", delay_between_sports))
            /\ pc' = "html"
       ELSE /\ UNCHANGED runLog
            /\ pc' = "cleanup"
  /\ UNCHANGED << envVars, pureVars, downloadVars, outputFiles, runVars, fetchResult, driverVars, apiCalled,
                  fetchCalls, driverCalls, endVars >>
  /\ UNCHANGED sportCause

\* after the loop: the delay and the HTML step, or straight to the cleanup
AfterLoop ==
  /\ pc = "loop"
  /\ index > Len(sports)
  /\ IF HtmlWanted
       THEN /\ runLog' = Append(runLog, Event("sleep", delay_between_sports))
            /\ pc' = "html"
       ELSE /\ UNCHANGED runLog
            /\ pc' = "cleanup"
  /\ UNCHANGED << envVars, pureVars, downloadVars, outputFiles, runVars, fetchResult, driverVars, apiCalled,
                  fetchCalls, driverCalls, endVars >>
  /\ UNCHANGED sportCause

\* _generate_html_page: the configured sports whose CSV file exists
available_sports == { i \in 1..Len(sports) : sports[i].filename \in outputFiles }

\* _generate_html_page: False without any CSV file; generate_schedule_html may
\* raise (caught: False) or write the page
GenerateHtmlPage ==
  /\ pc = "html"
  /\ runLog' = Append(runLog, Event("html", Cardinality(available_sports)))
  /\ IF available_sports = {}
       THEN UNCHANGED << htmlWritten, outputFiles >>
       ELSE \/ UNCHANGED << htmlWritten, outputFiles >>
            \/ /\ htmlWritten' = TRUE
               /\ outputFiles' = outputFiles \cup {PageFile}
  /\ pc' = "cleanup"
  /\ UNCHANGED << envVars, pureVars, downloadVars, runVars, fetchResult, driverVars, apiCalled, fetchCalls,
                  driverCalls, verifyFailed, runResult, exitCode >>
  /\ UNCHANGED sportCause

\* _cleanup_tmp and the end of run(): return successful_sports > 0; an OSError
\* of iterdir, stat, unlink or rmtree reaches run's except, which returns False
CleanupTmp ==
  /\ pc = "cleanup"
  /\ runLog' = Append(runLog, Event("cleanup", 0))
  /\ \/ runResult' = (successful_sports > 0)
     \/ runResult' = FALSE
  /\ pc' = "exit"
  /\ UNCHANGED << envVars, pureVars, downloadVars, outputFiles, runVars, fetchResult, driverVars, apiCalled,
                  fetchCalls, driverCalls, htmlWritten, verifyFailed, exitCode >>
  /\ UNCHANGED sportCause

\* main(): exit(0 if success else 1)
Main ==
  /\ pc = "exit"
  /\ exitCode' = IF runResult THEN 0 ELSE 1
  /\ pc' = "done"
  /\ UNCHANGED << envVars, pureVars, downloadVars, outputFiles, runVars, fetchResult, driverVars, apiCalled,
                  fetchCalls, driverCalls, runLog, htmlWritten, verifyFailed, runResult >>
  /\ UNCHANGED sportCause

Next ==
  \/ VerifyFilesystemPermissions
  \/ FetchSportSchedule
  \/ CallClaudeApi
  \/ IterationStart
  \/ ApiCallResponds
  \/ ApiCallRateLimited
  \/ ApiCallFails
  \/ ReturnFinal
  \/ ContinueToolUse
  \/ ReturnUnexpected
  \/ ReturnAtCeiling
  \/ DownloadArtifact
  \/ RunAfterFetch
  \/ AfterLoop
  \/ GenerateHtmlPage
  \/ CleanupTmp
  \/ Main

Spec == Init /\ [][Next]_vars

TypeOK ==
  /\ pc \in {"verify", "loop", "driver", "iter", "call", "inspect", "download",
             "after_fetch", "html", "cleanup", "exit", "done"}
  /\ index \in 1..(NumSports + 1)
  /\ successful_sports \in 0..NumSports
  /\ iteration \in 0..max_iterations
  /\ retry \in 0..(max_retries - 1)
  /\ exitCode \in {-1, 0, 1}

\* ---------------------------------------------------- _extract_code_blocks
\* A text is a sequence of tokens: the fence (three backticks, written [fence]
\* here), the newline, the space, the colon, and words (tags, filenames, data).
Fence == "[fence]"
Newline == "\n"
Space == " "
Whitespace == {Space, Newline}

\* (?:csv|html)
RecognizedTags == {"csv", "html"}

Least(S) == CHOOSE x \in S : \A y \in S : x <= y
Greatest(S) == CHOOSE x \in S : \A y \in S : x >= y

\* str.strip(): without the leading and trailing whitespace
Strip(s) ==
  LET keep == { k \in 1..Len(s) : s[k] \notin Whitespace }
  IN IF keep = {} THEN <<>> ELSE SubSeq(s, Least(keep), Greatest(keep))

\* the first position from p on where token t stands, 0 if there is none
FirstAt(s, t, p) ==
  LET hits == { k \in p..Len(s) : s[k] = t }
  IN IF hits = {} THEN 0 ELSE Least(hits)

\* the match of [fence](?:csv|html):([^\n]+)\n(.*?)[fence] (DOTALL) that begins at p:
\* the fence, a recognized tag, the colon, one or more tokens up to the next
\* newline (the filename group), then as few tokens as possible up to the next
\* fence (the content group); end is the position of that fence, 0 for no match
MatchAt(s, p) ==
  LET nl == FirstAt(s, Newline, p + 3)
      close == IF nl = 0 THEN 0 ELSE FirstAt(s, Fence, nl + 1)
  IN IF /\ p + 3 <= Len(s)
        /\ s[p] = Fence
        /\ s[p + 1] \in RecognizedTags
        /\ s[p + 2] = ":"
        /\ nl > p + 3
        /\ close > 0
       THEN [filename |-> SubSeq(s, p + 3, nl - 1),
             content |-> SubSeq(s, nl + 1, close - 1),
             end |-> close]
       ELSE [filename |-> <<>>, content |-> <<>>, end |-> 0]

\* re.findall: the non-overlapping matches, scanning from the left
RECURSIVE FindAll(_, _)
FindAll(s, p) ==
  IF p > Len(s)
    THEN <<>>
    ELSE LET m == MatchAt(s, p)
         IN IF m.end > 0 THEN << m >> \o FindAll(s, m.end + 1)
                         ELSE FindAll(s, p + 1)

\* _extract_code_blocks: (filename.strip(), content.strip()) for every match
extract_code_blocks(s) ==
  LET matches == FindAll(s, 1)
  IN [k \in 1..Len(matches) |-> << Strip(matches[k].filename), Strip(matches[k].content) >>]

\* the fenced blocks a text is composed of: the tag on the opening fence, a
\* colon or none, what follows up to the end of the line (a filename, bare or
\* padded with spaces, only a space, or nothing) and the body
Tags == {"csv", "html", "txt"}
FilenameChoices ==
  { [tokens |-> <<>>, name |-> <<>>],
    [tokens |-> << "a.csv" >>, name |-> << "a.csv" >>],
    [tokens |-> << Space, "b.html", Space >>, name |-> << "b.html" >>],
    [tokens |-> << Space >>, name |-> <<>>] }
ContentChoices ==
  { [tokens |-> << "x" >>, stripped |-> << "x" >>],
    [tokens |-> << Newline, "x", Newline, "y", Newline >>,
     stripped |-> << "x", Newline, "y" >>] }
FencedBlocks == [tag : Tags, colon : BOOLEAN, filename : FilenameChoices,
                 content : ContentChoices]

\* a fenced block as text
RenderBlock(b) ==
  << Fence, b.tag >> \o (IF b.colon THEN << ":" >> ELSE <<>>) \o b.filename.tokens
  \o << Newline >> \o b.content.tokens \o << Fence >>

\* the prose before, between and after the blocks
Separators == { << Newline >>, << Newline, "x", Newline >> }

RECURSIVE RenderText(_, _)
RenderText(bs, sep) ==
  IF bs = <<>> THEN sep
               ELSE sep \o RenderBlock(Head(bs)) \o RenderText(Tail(bs), sep)

BlockLists == UNION { [1..n -> FencedBlocks] : n \in 0..MaxBlocks }

\* the program itself at rest while a function is studied on its own
MainIdle ==
  /\ dirExists = Dirs
  /\ dirWritable = Dirs
  /\ writeTestOk = TRUE
  /\ templateExists = TRUE
  /\ outputFiles = {}
  /\ RunNotBegun

\* _extract_code_blocks is about to be called on a text
InitExtract ==
  /\ MainIdle
  /\ RowIdle
  /\ PageIdle
  /\ blocks \in BlockLists
  /\ \E sep \in Separators : text = RenderText(blocks, sep)
  /\ pairs = <<>>
  /\ extracted = FALSE

\* the call of _extract_code_blocks(text)
ExtractCodeBlocksCalled ==
  /\ ~extracted
  /\ pairs' = extract_code_blocks(text)
  /\ extracted' = TRUE
  /\ UNCHANGED << mainVars, rowVars, pageVars, blocks, text >>

NextExtract == ExtractCodeBlocksCalled

SpecExtract == InitExtract /\ [][NextExtract]_vars

\* ------------------------------------------------- html_generator.py: rows
\* A string is the sequence of its characters.
UpperLetters == << "A", "B", "C", "D", "E", "F", "G", "H", "I", "J", "K", "L", "M", "N", "O", "P", "Q", "R", "S", "T", "U", "V", "W", "X", "Y", "Z" >>
LowerLetters == << "a", "b", "c", "d", "e", "f", "g", "h", "i", "j", "k", "l", "m", "n", "o", "p", "q", "r", "s", "t", "u", "v", "w", "x", "y", "z" >>
LetterIndex(c, letters) == CHOOSE k \in 1..26 : letters[k] = c

\* str.lower() and str.upper()
LowerStr(s) ==
  [k \in 1..Len(s) |-> IF s[k] \in Range(UpperLetters)
                         THEN LowerLetters[LetterIndex(s[k], UpperLetters)]
                         ELSE s[k]]
UpperStr(s) ==
  [k \in 1..Len(s) |-> IF s[k] \in Range(LowerLetters)
                         THEN UpperLetters[LetterIndex(s[k], LowerLetters)]
                         ELSE s[k]]

\* sub in s
Contains(s, sub) ==
  \E p \in 0..(Len(s) - Len(sub)) : SubSeq(s, p + 1, p + Len(sub)) = sub

\* s.startswith(prefix)
StartsWith(s, prefix) ==
  Len(s) >= Len(prefix) /\ SubSeq(s, 1, Len(prefix)) = prefix

\* the columns of a schedule CSV file, as the table shows them
Columns == << "Date", "Day", "Opponent", "Location", "Venue", "Time", "Event",
             "Watch", "Result" >>

\* csv.DictReader fills the fields a short row lacks with None
None == << "None" >>

\* game.get(key, '')
Get(g, key) == IF key \in DOMAIN g THEN g[key] ELSE <<>>

\* ['home', 'lincoln ne']
HomeNames == { << "h", "o", "m", "e" >>,
               << "l", "i", "n", "c", "o", "l", "n", " ", "n", "e" >> }
\* 'neutral', and ['kansas city', 'sioux falls']
NeutralWord == << "n", "e", "u", "t", "r", "a", "l" >>
NeutralCities == { << "k", "a", "n", "s", "a", "s", " ", "c", "i", "t", "y" >>,
                   << "s", "i", "o", "u", "x", " ", "f", "a", "l", "l", "s" >> }

\* faulty variant: the location is compared as written, not lower-cased
LocationClassCaseSensitive(location) ==
  IF location \in HomeNames
    THEN "home-game"
    ELSE IF \/ Contains(location, NeutralWord)
            \/ \E city \in NeutralCities : Contains(location, city)
           THEN "neutral-game"
           ELSE "away-game"

\* location_class of the trimmed location
LocationClass(location) ==
  IF LowerStr(location) \in HomeNames
    THEN "home-game"
    ELSE IF \/ Contains(LowerStr(location), NeutralWord)
            \/ \E city \in NeutralCities : Contains(LowerStr(location), city)
           THEN "neutral-game"
           ELSE "away-game"

\* row_class of the trimmed result
RowClass(result) == IF result # <<>> THEN "game-completed" ELSE "game-upcoming"

\* a table cell: its text, inside a span of the given class or bare ("none")
Cell(span, chars) == [span |-> span, text |-> chars]

\* the Event and Watch cells: a badge when the trimmed value is not empty
Badge(class, value) == IF value # <<>> THEN Cell(class, value) ELSE Cell("none", <<>>)

\* faulty variant: the first letter of the result is compared in any case
ResultCellAnyCase(result) ==
  IF result # <<>>
    THEN IF StartsWith(LowerStr(result), << "w" >>) THEN Cell("result-win", result)
         ELSE IF StartsWith(LowerStr(result), << "l" >>) THEN Cell("result-loss", result)
         ELSE Cell("none", result)
    ELSE Cell("result-upcoming", << "-" >>)

\* result_html of the trimmed result (the placeholder glyph is a dash)
ResultCell(result) ==
  IF result # <<>>
    THEN IF StartsWith(result, << "W" >>) THEN Cell("result-win", result)
         ELSE IF StartsWith(result, << "L" >>) THEN Cell("result-loss", result)
         ELSE Cell("none", result)
    ELSE Cell("result-upcoming", << "-" >>)

\* format_game_row on a dictionary of strings: the classes of the tr element
\* and its nine cells
FormatGameRow(g) ==
  LET result == Strip(Get(g, "Result"))
      location == Strip(Get(g, "Location"))
      event == Strip(Get(g, "Event"))
      watch == Strip(Get(g, "Watch"))
  IN [classes |-> << RowClass(result), LocationClass(location) >>,
      cells |-> << Cell("none", Get(g, "Date")),
                   Cell("none", Get(g, "Day")),
                   Cell("none", Get(g, "Opponent")),
                   Cell("none", location),
                   Cell("none", Get(g, "Venue")),
                   Cell("none", Get(g, "Time")),
                   Badge("event-badge", event),
                   Badge("watch-channel", watch),
                   ResultCell(result) >>]

\* format_game_row raises AttributeError: .strip() is called on None
FormatGameRowRaises(g) ==
  \E key \in {"Result", "Location", "Event", "Watch"} : Get(g, key) = None

\* no row formatted yet
NoRow == [classes |-> <<>>, cells |-> <<>>]

\* the Location and Result values tried: each sample as written, lower-cased
\* and upper-cased, with 0 to MaxPad spaces on both sides
LocationSamples ==
  { << "H", "o", "m", "e" >>,
    << "L", "i", "n", "c", "o", "l", "n", " ", "N", "E" >>,
    << "L", "i", "n", "c", "o", "l", "n", ",", " ", "N", "E" >>,
    << "N", "e", "u", "t", "r", "a", "l" >>,
    << "N", "e", "u", "t", "r", "a", "l", " ", "S", "i", "t", "e" >>,
    << "K", "a", "n", "s", "a", "s", " ", "C", "i", "t", "y", " ", "M", "O" >>,
    << "a", "t", " ", "S", "i", "o", "u", "x", " ", "F", "a", "l", "l", "s" >>,
    << "A", "w", "a", "y" >>,
    << "A", "m", "e", "s" >>,
    << "H", "o", "m", "e", "r" >>,
    <<>> }
ResultSamples ==
  { <<>>,
    << "W", " ", "2", "4", "-", "1", "0" >>,
    << "L", " ", "1", "0", "-", "2", "0" >>,
    << "T", " ", "3", "-", "3" >>,
    << "w", " ", "7", "-", "3" >>,
    << "P", "o", "s", "t", "p", "o", "n", "e", "d" >>,
    << "W", "o", "n" >>,
    << "l", " ", "0", "-", "1" >> }
Spaces(n) == [k \in 1..n |-> Space]
Variants(samples) ==
  { Spaces(n) \o v \o Spaces(n) :
      v \in UNION { { x, LowerStr(x), UpperStr(x) } : x \in samples }, n \in 0..MaxPad }
Absent == << "absent" >>

\* a row dictionary: Location and Result may be missing
GameOf(location, result, event, watch) ==
  LET given == [Date |-> << "9", "/", "1" >>, Day |-> << "S", "a", "t" >>,
                Opponent |-> << "I", "o", "w", "a" >>, Location |-> location,
                Venue |-> << "K", "i", "n", "n", "i", "c", "k" >>, Time |-> << "2", ":", "3", "0", " ", "P", "M" >>,
                Event |-> event, Watch |-> watch, Result |-> result]
      keys == { k \in DOMAIN given : given[k] # Absent }
  IN [k \in keys |-> given[k]]
Games ==
  { GameOf(l, r, e, w) : l \in Variants(LocationSamples) \cup {Absent},
                         r \in Variants(ResultSamples) \cup {Absent},
                         e \in { <<>>, << "B", "i", "g", " ", "T", "e", "n" >> },
                         w \in { <<>>, << "E", "S", "P", "N" >> } }

\* format_game_row is about to be called on a row
InitRow ==
  /\ MainIdle
  /\ ExtractIdle
  /\ PageIdle
  /\ game \in Games
  /\ row = NoRow

\* the call of format_game_row(game)
FormatGameRowCalled ==
  /\ row = NoRow
  /\ row' = FormatGameRow(game)
  /\ UNCHANGED << mainVars, extractVars, pageVars, game >>

NextRow == FormatGameRowCalled

SpecRow == InitRow /\ [][NextRow]_vars

\* -------------------------------------------------- html_generator.py: page
\* data lines of a CSV file whose header names the nine columns: a completed
\* game, an upcoming game with an empty Result field, and an upcoming game
\* whose line ends after the Watch field
LineCompleted ==
  << << "9", "/", "1" >>,
     << "S", "a", "t" >>,
     << "I", "o", "w", "a" >>,
     << "H", "o", "m", "e" >>,
     << "M", "e", "m", "o", "r", "i", "a", "l" >>,
     << "2", ":", "3", "0", " ", "P", "M" >>,
     <<>>,
     << "E", "S", "P", "N" >>,
     << "W", " ", "2", "4", "-", "1", "0" >> >>
LineUpcoming ==
  << << "9", "/", "8" >>,
     << "S", "a", "t" >>,
     << "A", "m", "e", "s" >>,
     << "A", "w", "a", "y" >>,
     << "T", "r", "i", "c", "e" >>,
     << "T", "B", "D" >>,
     <<>>,
     <<>>,
     <<>> >>
LineShort ==
  << << "9", "/", "8" >>,
     << "S", "a", "t" >>,
     << "A", "m", "e", "s" >>,
     << "A", "w", "a", "y" >>,
     << "T", "r", "i", "c", "e" >>,
     << "T", "B", "D" >>,
     <<>>,
     << "E", "S", "P", "N" >> >>

\* a CSV file in the output directory: absent, or its data lines
FileChoices ==
  { [exists |-> FALSE, lines |-> <<>>],
    [exists |-> TRUE, lines |-> <<>>],
    [exists |-> TRUE, lines |-> << LineCompleted >>],
    [exists |-> TRUE, lines |-> << LineUpcoming >>],
    [exists |-> TRUE, lines |-> << LineShort >>],
    [exists |-> TRUE, lines |-> << LineCompleted, LineUpcoming >>],
    [exists |-> TRUE, lines |-> << LineCompleted, LineShort >>] }

\* csv.DictReader: a row maps each column of the header to its field, None
\* for the fields the line does not have
ColumnIndex(key) == CHOOSE i \in 1..Len(Columns) : Columns[i] = key
DictRow(fields) ==
  [key \in Range(Columns) |-> IF ColumnIndex(key) <= Len(fields)
                                THEN fields[ColumnIndex(key)]
                                ELSE None]

\* read_csv: no rows when the file does not exist, else one row per data line
ReadCsv(file) ==
  IF ~file.exists THEN <<>>
                  ELSE [k \in 1..Len(file.lines) |-> DictRow(file.lines[k])]

\* generate_sport_section: the placeholder section when there is no row,
\* else the table with one formatted row per game
SportSection(sport, games) ==
  IF games = <<>>
    THEN [sport |-> sport.name, kind |-> "placeholder", rows |-> <<>>]
    ELSE [sport |-> sport.name, kind |-> "table",
          rows |-> [k \in 1..Len(games) |-> FormatGameRow(games[k])]]

\* generate_sport_section raises when format_game_row does
SportSectionRaises(games) == \E k \in 1..Len(games) : FormatGameRowRaises(games[k])

\* generate_html is about to be called on a sports list, with some CSV files
InitPage ==
  /\ MainIdle
  /\ ExtractIdle
  /\ RowIdle
  /\ \E n \in 1..MaxPageSports :
       /\ sports_config = SubSeq(DefaultSports, 1, n)
       /\ csvFiles \in [1..n -> FileChoices]
  /\ sections = <<>>
  /\ pageState = "sections"

\* generate_html: for sport in sports_config: generate_sport_section
GenerateSportSection ==
  /\ pageState = "sections"
  /\ Len(sections) < Len(sports_config)
  /\ LET i == Len(sections) + 1
         games == ReadCsv(csvFiles[i])
     IN IF SportSectionRaises(games)
          THEN /\ pageState' = "raised"
               /\ UNCHANGED sections
          ELSE /\ sections' = Append(sections, SportSection(sports_config[i], games))
               /\ UNCHANGED pageState
  /\ UNCHANGED << mainVars, extractVars, rowVars, sports_config, csvFiles >>

\* generate_html: return html
GenerateHtmlReturns ==
  /\ pageState = "sections"
  /\ Len(sections) = Len(sports_config)
  /\ pageState' = "done"
  /\ UNCHANGED << mainVars, extractVars, rowVars, sports_config, csvFiles, sections >>

NextPage ==
  \/ GenerateSportSection
  \/ GenerateHtmlReturns

SpecPage == InitPage /\ [][NextPage]_vars

\* ------------------------------------------------------------- properties
\* the rate-limit sleeps of the current iteration: iterSleeps without the
\* fixed delay that opens every iteration but the first
Backoffs == IF iteration > 0 /\ iterSleeps # <<>> THEN Tail(iterSleeps) ELSE iterSleeps

\* C1: while the driver loops, the conversation is the prompt followed by one
\* (assistant, follow-up user) pair per tool_use response received, the k-th
\* assistant entry holding the k-th response's content; the call is re-issued
\* only after a tool_use response, the loop ends on tool_use only at the
\* ceiling, and never more than 25 iterations run for one sport.
ToolUseAppendsOnePair ==
  /\ nResponses <= 25
  /\ iteration <= 25
  /\ pc \in {"iter", "call"} =>
       /\ Len(messages) = 2 * toolUses + 1
       /\ toolUses = nResponses
       /\ iteration = toolUses
       /\ \A k \in 1..toolUses :
            /\ messages[2 * k].role = "assistant"
            /\ messages[2 * k].content.kind = "response"
            /\ messages[2 * k].content.ordinal = k
            /\ messages[2 * k + 1] = [role |-> "user", content |-> FollowUpContent]
       /\ toolUses > 0 =>
            /\ response.stop_reason = "tool_use"
            /\ messages[Len(messages) - 1] =
                 [role |-> "assistant", content |-> response.content]
  /\ pc = "inspect" =>
       Len(messages) = 2 * (toolUses - (IF response.stop_reason = "tool_use" THEN 1 ELSE 0)) + 1
  /\ (driverOutcome = "returned" /\ driverReturn.stop_reason = "tool_use") =>
       nResponses = 25

\* C1 witness: the 25th tool_use response has been answered with its pair
ToolUseAppendsOnePairWitness ==
  /\ pc = "iter"
  /\ toolUses = 25
  /\ Len(messages) = 51

\* C2: in one iteration the rate-limit sleeps are 60, 120, 240, 480 in that
\* order, one before each of attempts 2 to 5; the fifth rejection raises the
\* rate-limit error with no further sleep and no response returned.
BackoffSequenceExact ==
  /\ retry <= 4
  /\ pc = "call" => Backoffs = SubSeq(<< 60, 120, 240, 480 >>, 1, retry)
  /\ driverError = "RateLimitError" =>
       /\ Backoffs = << 60, 120, 240, 480 >>
       /\ retry = 4
       /\ driverOutcome = "raised"
       /\ driverReturn = NoResponse
       /\ pc = "after_fetch"
       /\ fetchResult = FALSE

\* C2 witness: a fifth consecutive rejection in a later iteration
BackoffSequenceExactWitness ==
  /\ driverError = "RateLimitError"
  /\ iteration = 2
  /\ iterSleeps = << 3, 60, 120, 240, 480 >>

\* C3: once a response with a stop reason other than tool_use has arrived, no
\* API call, sleep or append follows in that conversation, and what the driver
\* returns is that response.
NonToolUseReturnsAtOnce ==
  /\ afterFinal = 0
  /\ FinalSeen =>
       /\ response.stop_reason \in StopReasons \ {"tool_use"}
       /\ response.content.ordinal = nResponses
       /\ \/ pc = "inspect" /\ driverOutcome = "none"
          \/ /\ pc = "download"
             /\ driverOutcome = "returned"
             /\ driverReturn = response

\* C3 witness: an unexpected stop reason returned as the third response
NonToolUseReturnsAtOnceWitness ==
  /\ pc = "download"
  /\ driverOutcome = "returned"
  /\ driverReturn.stop_reason = "pause_turn"
  /\ nResponses = 3

\* C4: after 25 tool_use responses the driver returns the 25th response as a
\* normal return value; nothing is raised.
CeilingReturnsLastResponse ==
  toolUses = 25 =>
    /\ driverOutcome # "raised"
    /\ driverError = "none"
    /\ \/ pc \in {"inspect", "iter"} /\ driverOutcome = "none"
       \/ /\ pc = "download"
          /\ driverOutcome = "returned"
          /\ driverReturn = response
          /\ driverReturn.stop_reason = "tool_use"
          /\ driverReturn.content.ordinal = 25

\* C4 witness: the driver has returned at the ceiling
CeilingReturnsLastResponseWitness ==
  /\ toolUses = 25
  /\ pc = "download"
  /\ driverOutcome = "returned"

\* steps the driver can still take: 8 per remaining iteration (the start, five
\* attempts, the inspection, the continuation)
DriverMeasure ==
  CASE pc = "iter"    -> (25 - iteration) * 8 + 7
    [] pc = "call"    -> (25 - iteration) * 8 + 6 - retry
    [] pc = "inspect" -> (25 - iteration) * 8 + 1
    [] OTHER          -> 0

\* a conversation takes at most 25 responses with at most 5 attempts each, and
\* every step of the driver uses up one of the steps it has left
DriverBounded ==
  /\ nResponses <= 25
  /\ retry <= 4
  /\ DriverMeasure >= 0

\* the driver has ended exactly when it returned a response or raised an error
DriverOutcomeKnown ==
  /\ driverOutcome \in {"none", "returned", "raised"}
  /\ pc \in {"driver", "iter", "call", "inspect"} => driverOutcome = "none"
  /\ pc = "download" => driverOutcome = "returned"
  /\ (pc = "after_fetch" /\ driverCalls[index] > 0 /\ driverOutcome = "none") =>
       sportCause[index] \in {"none", "no_text", "no_files", "io_error"}
  /\ driverOutcome = "returned" =>
       /\ driverError = "none"
       /\ driverReturn.stop_reason \in StopReasons
  /\ driverOutcome = "raised" =>
       /\ driverError \in {"RateLimitError", "APIError"}
       /\ driverReturn = NoResponse

\* every step taken inside the driver loop uses up one of the steps left
DriverProgress == pc \in {"iter", "call", "inspect"} => (DriverMeasure)' < DriverMeasure

\* C5 as stated: the conversation is bounded and whatever the driver returns
\* is a final answer, a response with a terminal stop reason.
ConversationEndsFinalOrFailure ==
  /\ DriverBounded
  /\ DriverOutcomeKnown
  /\ driverOutcome = "returned" => driverReturn.stop_reason # "tool_use"

\* C5 amended: the conversation is bounded (at most 25 responses, at most 5
\* attempts each, every driver step decreasing the steps left) and it ends in
\* a response with a stop reason other than tool_use, in a raised error, or,
\* at the ceiling, in the 25th tool_use response returned.
ConversationEndsFinalFailureOrCeiling ==
  /\ [](DriverBounded /\ DriverOutcomeKnown)
  /\ [](driverOutcome = "returned" =>
          \/ driverReturn.stop_reason # "tool_use"
          \/ driverReturn.content.ordinal = 25 /\ toolUses = 25)
  /\ [][DriverProgress]_vars

\* C5 witness: the third ending, the 25th tool_use response returned at the
\* ceiling, here carrying a text block
ConversationEndsWitness ==
  /\ driverOutcome = "returned"
  /\ driverReturn.stop_reason = "tool_use"
  /\ driverReturn.content.hasText
  /\ nResponses = 25

\* sports whose loop body has completed
Processed == 1..(index - 1)
LoopOver == pc \in {"html", "cleanup", "exit", "done"} /\ ~verifyFailed

\* C6: an API error other than a rate limit ends the driver at once (raised, no
\* retry, no sleep added); the sport is recorded failed and not counted, and
\* every remaining sport is still processed.
ApiErrorFailsSportOnly ==
  /\ \A i \in 1..NumSports : sportCause[i] = "api_error" =>
       /\ i <= index
       /\ i = index =>
            /\ pc = "after_fetch"
            /\ driverOutcome = "raised"
            /\ driverError = "APIError"
            /\ driverReturn = NoResponse
            /\ fetchResult = FALSE
            /\ Len(Backoffs) = retry
       /\ i \in Processed => sportStatus[i] = "failed"
       /\ LoopOver => \A j \in i..NumSports :
                        fetchCalls[j] = 1 /\ sportStatus[j] # "pending"
  /\ successful_sports = Cardinality({ i \in 1..NumSports : sportStatus[i] = "ok" })

\* C6 witness: the first sport failed on an API error met on a second attempt,
\* a later sport was fetched successfully
ApiErrorFailsSportOnlyWitness ==
  /\ pc = "done"
  /\ sportCause[1] = "api_error"
  /\ sportStatus[1] = "failed"
  /\ sportStatus[NumSports] = "ok"

\* C7: the process exits with 0 exactly when at least one sport was fetched
\* successfully, whatever happens after the fetch loop.
ExitZeroIffSportFetched ==
  pc = "done" => (exitCode = 0 <=> successful_sports > 0)

\* C8: when the permission verification fails, run() ends in failure and no
\* API call has been made and no sport processed.
PermissionFailureBeforeAnyCall ==
  LET bad == \/ \E d \in {"output", "tmp", "logs"} : d \notin dirExists \/ d \notin dirWritable
             \/ ~writeTestOk
  IN /\ bad =>
          /\ ~apiCalled
          /\ \A i \in 1..NumSports : fetchCalls[i] = 0 /\ driverCalls[i] = 0
                                     /\ sportStatus[i] = "pending"
          /\ runLog = <<>>
          /\ messages = <<>>
          /\ pc \in {"verify", "exit", "done"}
          /\ pc # "verify" => verifyFailed /\ runResult = FALSE
          /\ pc = "done" => exitCode = 1
     /\ verifyFailed => bad

\* C8 witness: all directories are fine but the write test fails; run has ended
PermissionFailureBeforeAnyCallWitness ==
  /\ pc = "done"
  /\ verifyFailed
  /\ dirExists = {"output", "tmp", "logs"}
  /\ dirWritable = {"output", "tmp", "logs"}
  /\ ~writeTestOk

\* number of run-level events of a kind
CountEv(ev) == Cardinality({ k \in 1..Len(runLog) : runLog[k].ev = ev })

\* C9: every fetch but the first, and every HTML generation, is immediately
\* preceded by a sleep of the configured delay, and no other run-level sleep
\* is taken.
DelayBetweenSportsAndBeforeHtml ==
  /\ \A k \in 1..Len(runLog) :
       /\ (runLog[k].ev = "fetch" /\ runLog[k].arg > 1) =>
            k > 1 /\ runLog[k - 1] = Event("sleep", delay_between_sports)
       /\ runLog[k].ev = "html" =>
            k > 1 /\ runLog[k - 1] = Event("sleep", delay_between_sports)
       /\ runLog[k].ev = "sleep" =>
            /\ runLog[k].arg = delay_between_sports
            /\ k > 1 /\ runLog[k - 1].ev # "sleep"
            /\ k < Len(runLog) => runLog[k + 1].ev \in {"fetch", "html"}
  /\ LoopOver => CountEv("fetch") = NumSports
  /\ CountEv("sleep") <= (CountEv("fetch") - 1) + 1

\* C9 witness: all sports fetched and the page generated
DelayBetweenSportsAndBeforeHtmlWitness ==
  /\ pc = "done"
  /\ htmlWritten
  /\ CountEv("fetch") = NumSports
  /\ CountEv("sleep") = NumSports

\* C10: a sport whose response yields zero files is recorded failed, the run
\* goes on to the next sport, and no sport is fetched (or its driver invoked)
\* more than once: after the loop each sport was fetched exactly once.
ZeroFilesFailsSportNoRetry ==
  /\ \A i \in 1..NumSports :
       /\ fetchCalls[i] <= 1
       /\ driverCalls[i] <= fetchCalls[i]
       /\ i \in Processed => fetchCalls[i] = 1
       /\ i > index => fetchCalls[i] = 0
       /\ sportCause[i] \in {"no_files", "no_text"} =>
            /\ driverCalls[i] = 1
            /\ i = index => pc = "after_fetch" /\ fetchResult = FALSE
            /\ i \in Processed => sportStatus[i] = "failed"
  /\ LoopOver => \A i \in 1..NumSports : fetchCalls[i] = 1 /\ sportStatus[i] # "pending"
  /\ successful_sports = Cardinality({ i \in 1..NumSports : sportStatus[i] = "ok" })

\* C10 witness: the first sport's text held no block, the next sport was fetched
ZeroFilesFailsSportNoRetryWitness ==
  /\ pc = "done"
  /\ sportCause[1] = "no_files"
  /\ sportStatus[1] = "failed"
  /\ driverCalls[1] = 1
  /\ driverCalls[2] = 1

\* the run-level events the step being taken appends
Added == SubSeq(runLog', Len(runLog) + 1, Len(runLog'))
AddedKinds == [k \in 1..Len(Added) |-> Added[k].ev]

\* C11 as stated: every response _download_artifact processes has its text
\* written to the inspection file (then the extraction follows).
ArtifactWrittenForEveryResponse ==
  \A p \in 1..Len(runLog) :
    runLog[p].ev = "download" =>
      /\ p < Len(runLog)
      /\ runLog[p + 1] = Event("artifact", runLog[p].arg)

\* one step of _download_artifact: a response with a text block has its text
\* written verbatim to the inspection file first and only then extracted (or
\* the write fails and nothing is extracted); without a recognized block the
\* result is 0 files, nothing written to the output directory, the inspection
\* file still there; a response without a text block gives 0 files and no
\* inspection file
ArtifactStep ==
  pc = "download" =>
    LET hasText == driverReturn.content.hasText
        retBlocks == driverReturn.content.files
    IN /\ Len(Added) >= 1
       /\ Added[1] = Event("download", index)
       /\ \A k \in 1..Len(Added) : Added[k].arg = index
       /\ hasText =>
            \/ /\ AddedKinds = << "download" >>
               /\ inspection' = NoText
               /\ ~fetchResult'
            \/ /\ Len(Added) >= 3
               /\ SubSeq(AddedKinds, 1, 3) = << "download", "artifact", "extract" >>
               /\ \A k \in 4..Len(Added) : AddedKinds[k] = "write"
               /\ inspection' = [hasText |-> TRUE, files |-> retBlocks]
       /\ (hasText /\ retBlocks = <<>> /\ Len(Added) > 1) =>
            /\ AddedKinds = << "download", "artifact", "extract" >>
            /\ inspection' = [hasText |-> TRUE, files |-> <<>>]
            /\ ~fetchResult'
            /\ outputFiles' = outputFiles
       /\ ~hasText =>
            /\ AddedKinds = << "download" >>
            /\ inspection' = NoText
            /\ ~fetchResult'
            /\ outputFiles' = outputFiles

\* C11 amended: whenever _download_artifact processes a response holding a
\* text block, the combined text is written verbatim to the inspection file
\* before the extraction is attempted, also when the text holds no recognized
\* block (0 files saved, inspection file written); a response without any
\* text block yields 0 files and no inspection file is written.
ArtifactBeforeExtraction == [][ArtifactStep]_vars

\* C11 witness: a text without a recognized block was processed: inspection
\* file written, extraction done, no file saved
ArtifactBeforeExtractionWitness ==
  /\ pc = "after_fetch"
  /\ inspection = [hasText |-> TRUE, files |-> <<>>]
  /\ Len(runLog) >= 3
  /\ SubSeq(runLog, Len(runLog) - 2, Len(runLog)) =
       << Event("download", index), Event("artifact", index), Event("extract", index) >>
  /\ sportCause[index] = "no_files"
  /\ ~fetchResult

\* C13 as stated: the extractor is given the assistant text of the whole
\* conversation, so a recognized block of any turn, the turns that ended with
\* tool_use included, is among the blocks extracted.
ExtractorGetsWholeConversation ==
  (pc = "after_fetch" /\ Event("download", index) \in Range(runLog)) =>
    \A k \in 1..Len(earlierBlocks) : earlierBlocks[k] \in Range(extractInput.files)

\* one step of _download_artifact: the text extracted is the text of the
\* response the driver returned, whatever the earlier turns held
ExtractionStep ==
  pc = "download" =>
    LET retBlocks == driverReturn.content.files
    IN /\ extractInput' \in {NoText, [hasText |-> TRUE, files |-> retBlocks]}
       /\ Event("extract", index) \in Range(Added) =>
            extractInput' = [hasText |-> TRUE, files |-> retBlocks]
       /\ outputFiles' \subseteq outputFiles \cup Range(retBlocks)
       /\ Cardinality({ k \in 1..Len(Added) : Added[k].ev = "write" }) <= Len(retBlocks)
       /\ fetchResult' => retBlocks # <<>>

\* C13 amended: the text handed to the extractor is the combined text of the
\* one response the driver returned; the text of earlier turns that ended
\* with tool_use is not handed over, so a recognized block yields a pair only
\* when it is in the returned response.
ExtractorGetsReturnedResponseOnly == [][ExtractionStep]_vars

\* C13 witness: a tool_use turn held a recognized block, the returned response
\* held text without any block: nothing was extracted, the sport failed
ExtractorGetsReturnedResponseOnlyWitness ==
  /\ pc = "after_fetch"
  /\ earlierBlocks # <<>>
  /\ extractInput = [hasText |-> TRUE, files |-> <<>>]
  /\ sportCause[index] = "no_files"
  /\ ~fetchResult

\* the place of a per-sport event in the processing of that sport
StepRank(ev) ==
  CASE ev = "fetch"    -> 1
    [] ev = "prompt"   -> 2
    [] ev = "driver"   -> 3
    [] ev = "download" -> 4
    [] ev = "artifact" -> 5
    [] ev = "extract"  -> 6
    [] ev = "write"    -> 7
    [] OTHER           -> 0
SportEvents == { k \in 1..Len(runLog) : StepRank(runLog[k].ev) > 0 }

\* C17: the steps of run() are strictly ordered: the sports are processed in
\* configuration order, each one's prompt, driver, extraction and file writes
\* in that order (the driver has returned before the extraction), a sport is
\* started only when the previous one is finished, and the HTML step is taken
\* once, after the last sport has been processed.
RunStepsStrictlyOrdered ==
  /\ LET IsStep(e) == StepRank(e.ev) > 0
         steps == SelectSeq(runLog, IsStep)
     IN \* each step and the next one: the order required is transitive
        \A k \in 1..(Len(steps) - 1) :
          /\ steps[k].arg <= steps[k + 1].arg
          /\ steps[k].arg = steps[k + 1].arg =>
               \/ StepRank(steps[k].ev) < StepRank(steps[k + 1].ev)
               \/ steps[k].ev = "write" /\ steps[k + 1].ev = "write"
  /\ \A p \in SportEvents :
       /\ runLog[p].arg \in 1..NumSports
       /\ runLog[p].arg <= index
       /\ runLog[p].ev # "fetch" => p > 1 /\ runLog[p - 1].arg = runLog[p].arg
                                          /\ StepRank(runLog[p - 1].ev) > 0
  /\ \A i \in 1..NumSports :
       /\ (i < index) = (sportStatus[i] # "pending")
       /\ Event("fetch", i) \in Range(runLog) => \A j \in 1..(i - 1) : sportStatus[j] # "pending"
  /\ pc \in {"driver", "iter", "call", "inspect"} =>
       /\ runLog[Len(runLog)].arg = index
       /\ runLog[Len(runLog)].ev = (IF pc = "driver" THEN "prompt" ELSE "driver")
  /\ pc = "download" => driverOutcome = "returned" /\ runLog[Len(runLog)] = Event("driver", index)
  /\ \A p \in 1..Len(runLog) :
       runLog[p].ev = "html" =>
         /\ \A i \in 1..NumSports : \E q \in 1..(p - 1) : runLog[q] = Event("fetch", i)
         /\ \A q \in SportEvents : q < p
         /\ \A i \in 1..NumSports : sportStatus[i] # "pending"
         /\ \A q \in 1..Len(runLog) : runLog[q].ev = "html" => q = p
  /\ pc = "html" => index = NumSports + 1

\* C17 witness: every sport was fetched with a file written, then the page
RunStepsStrictlyOrderedWitness ==
  /\ pc = "done"
  /\ \A i \in 1..NumSports : sportStatus[i] = "ok" /\ sports[i].filename \in outputFiles
  /\ htmlWritten
  /\ runLog[Len(runLog) - 1].ev = "html"

\* the fixed delays among the sleeps taken since the iteration began
FixedDelays == { k \in 1..Len(iterSleeps) : iterSleeps[k] = 3 }

\* the retry loop of an iteration is running, or has just raised
InRetryLoop == pc = "call" \/ (pc = "after_fetch" /\ driverOutcome = "raised")

\* C18: in one conversation the 3-second sleep is taken before every loop
\* iteration except the first and once per iteration: it is the first sleep
\* of the iteration, the retry attempts do not repeat it, and no such sleep
\* precedes the first API call.
FixedDelayOncePerIteration ==
  /\ InRetryLoop =>
       /\ iteration = 0 => FixedDelays = {}
       /\ iteration > 0 => FixedDelays = {1}
       /\ Len(iterSleeps) = retry + Cardinality(FixedDelays)
  /\ (pc = "call" /\ nResponses = 0) => 3 \notin Range(iterSleeps)
  /\ ~apiCalled => 3 \notin Range(iterSleeps)

\* C18 witness: the third attempt of the second iteration
FixedDelayOncePerIterationWitness ==
  /\ pc = "call"
  /\ iteration = 1
  /\ retry = 2
  /\ iterSleeps = << 3, 60, 120 >>

\* C19: at every API call the conversation sent begins with the one user
\* entry holding the current sport's prompt, alternates user and assistant,
\* ends with a user entry, has length 2k+1 for k tool_use responses received,
\* and holds nothing of another sport's conversation.
ConversationWellFormed ==
  pc = "call" =>
    /\ Len(messages) = 2 * toolUses + 1
    /\ messages[1] = [role |-> "user",
                      content |-> [kind |-> "prompt", sport |-> index, ordinal |-> 0,
                                   hasText |-> FALSE, files |-> <<>>]]
    /\ \A k \in 1..Len(messages) :
         /\ messages[k].role = (IF k % 2 = 1 THEN "user" ELSE "assistant")
         /\ k > 1 => messages[k].content.kind # "prompt"
         /\ messages[k].content.kind \in {"prompt", "response"} =>
              messages[k].content.sport = index
         /\ messages[k].role = "assistant" => messages[k].content.kind = "response"
    /\ messages[Len(messages)].role = "user"

\* C19 witness: a call for the second sport after two tool_use responses
ConversationWellFormedWitness ==
  /\ pc = "call"
  /\ index = 2
  /\ toolUses = 2
  /\ Len(messages) = 5
  /\ messages[2].content.sport = 2

\* C20: the retry budget is per iteration: whatever rate-limit rejections the
\* earlier iterations met, an iteration counts its attempts from zero, its
\* backoff starts at 60 seconds and doubles, and the error is raised only on
\* the fifth rejection of that one iteration.
RetryBudgetPerIteration ==
  /\ InRetryLoop =>
       /\ Len(Backoffs) = retry
       /\ \A k \in 1..Len(Backoffs) : Backoffs[k] = 60 * 2^(k - 1)
  /\ driverError = "RateLimitError" => Len(Backoffs) = 4
  /\ rejectedEarlier => iteration > 0

\* C20 witness: an iteration that follows a rate-limited one has used its own
\* five attempts, with the backoff restarted at 60 seconds
RetryBudgetPerIterationWitness ==
  /\ driverError = "RateLimitError"
  /\ rejectedEarlier
  /\ iteration = 1
  /\ iterSleeps = << 3, 60, 120, 240, 480 >>

\* a block the claim counts: a recognized tag, the colon, a filename
Recognized(b) == b.tag \in {"csv", "html"} /\ b.colon /\ b.filename.name # <<>>

\* the pairs the claim expects for a text made of the given blocks
ExpectedPairs(bs) ==
  LET rec == SelectSeq(bs, Recognized)
  IN [k \in 1..Len(rec) |-> << rec[k].filename.name, rec[k].content.stripped >>]

\* C12: for a text of well-formed fenced blocks _extract_code_blocks returns
\* exactly one (filename, content) pair per block whose opening fence has a
\* recognized tag, the colon and a filename, in the order of the blocks, both
\* parts stripped; a block with another tag or without a filename gives none.
ExtractReturnsRecognizedBlocks ==
  extracted => pairs = ExpectedPairs(blocks)

\* C15: format_game_row gives each row exactly one location class, decided
\* on the trimmed, lower-cased Location: home-game when it equals "home" or
\* "lincoln ne"; otherwise neutral-game when it contains "neutral", "kansas
\* city" or "sioux falls"; otherwise away-game, which is also the class of an
\* empty or missing Location.
LocationClassByRule ==
  row # NoRow =>
    LET loc == LowerStr(Strip(Get(game, "Location")))
        isHome == \/ loc = << "h", "o", "m", "e" >>
                  \/ loc = << "l", "i", "n", "c", "o", "l", "n", " ", "n", "e" >>
        isNeutral == \/ Contains(loc, << "n", "e", "u", "t", "r", "a", "l" >>)
                     \/ Contains(loc, << "k", "a", "n", "s", "a", "s", " ", "c", "i", "t", "y" >>)
                     \/ Contains(loc, << "s", "i", "o", "u", "x", " ", "f", "a", "l", "l", "s" >>)
    IN /\ Len(row.classes) = 2
       /\ row.classes[1] \notin {"home-game", "neutral-game", "away-game"}
       /\ row.classes[2] \in {"home-game", "neutral-game", "away-game"}
       /\ isHome => row.classes[2] = "home-game"
       /\ (~isHome /\ isNeutral) => row.classes[2] = "neutral-game"
       /\ (~isHome /\ ~isNeutral) => row.classes[2] = "away-game"
       /\ ("Location" \notin DOMAIN game \/ loc = <<>>) => row.classes[2] = "away-game"

\* C15 witness: " LINCOLN NE " has been classed as a home game
LocationClassByRuleWitness ==
  /\ row # NoRow
  /\ "Location" \in DOMAIN game
  /\ game["Location"] = << " ", "L", "I", "N", "C", "O", "L", "N", " ", "N", "E", " " >>
  /\ row.classes[2] = "home-game"

\* C16: the Result cell depends on the trimmed Result alone: a result-win
\* span when it starts with "W", a result-loss span when it starts with "L",
\* the bare text when it is not empty and starts with neither, the upcoming
\* placeholder when it is empty; the row is game-completed exactly when the
\* trimmed Result is not empty, game-upcoming otherwise; Result "W 24-10"
\* with Location "Home" gives a win span on a home-game row.
ResultCellByRule ==
  row # NoRow =>
    LET res == Strip(Get(game, "Result"))
        cell == row.cells[9]
    IN /\ (res # <<>> /\ res[1] = "W") => cell = [span |-> "result-win", text |-> res]
       /\ (res # <<>> /\ res[1] = "L") => cell = [span |-> "result-loss", text |-> res]
       /\ (res # <<>> /\ res[1] \notin {"W", "L"}) => cell = [span |-> "none", text |-> res]
       /\ res = <<>> => cell.span = "result-upcoming" /\ cell.text # <<>>
       /\ row.classes[1] = (IF res # <<>> THEN "game-completed" ELSE "game-upcoming")
       /\ ( /\ Get(game, "Result") = << "W", " ", "2", "4", "-", "1", "0" >>
            /\ Get(game, "Location") = << "H", "o", "m", "e" >> ) =>
            /\ cell.span = "result-win"
            /\ row.classes = << "game-completed", "home-game" >>

\* C16 witness: Result "W 24-10" with Location "Home" and an Event has been
\* rendered: a win span on a completed home-game row
ResultCellByRuleWitness ==
  /\ row # NoRow
  /\ Get(game, "Result") = << "W", " ", "2", "4", "-", "1", "0" >>
  /\ Get(game, "Location") = << "H", "o", "m", "e" >>
  /\ Get(game, "Event") # <<>>
  /\ row.cells[9] = [span |-> "result-win", text |-> << "W", " ", "2", "4", "-", "1", "0" >>]
  /\ row.classes = << "game-completed", "home-game" >>

\* C14: whatever CSV files are absent, generate_html does not raise and
\* returns a page with one section per configured sport: the placeholder and
\* no table for a sport whose file is absent, the table for a sport whose
\* file is present; for the single sport Football without Football.csv the
\* page has exactly one section, the placeholder.
PageCompleteWhateverIsAbsent ==
  /\ pageState # "raised"
  /\ pageState = "done" =>
       /\ Len(sections) = Len(sports_config)
       /\ \A i \in 1..Len(sports_config) :
            /\ sections[i].sport = sports_config[i].name
            /\ ~csvFiles[i].exists =>
                 sections[i].kind = "placeholder" /\ sections[i].rows = <<>>
            /\ csvFiles[i].exists =>
                 sections[i].kind = "table" /\ sections[i].rows # <<>>
       /\ (Len(sports_config) = 1 /\ ~csvFiles[1].exists) =>
            sections = << [sport |-> "Football", kind |-> "placeholder", rows |-> <<>>] >>

\* C21: run() writes the page file only when at least one sport was fetched
\* successfully in this run and at least one configured sport's CSV file
\* exists in the output directory; in every other case the page file is left
\* untouched.  (The output directory holds no page file when the run begins,
\* so the file is there at the end exactly when the run wrote it.)
PageWrittenOnlyAfterSuccessWithCsv ==
  (pc = "done" /\ PageFile \in outputFiles) =>
    /\ \E i \in 1..NumSports : sportStatus[i] = "ok"
    /\ available_sports # {}

\* the files the step being taken writes to the output directory, counted
WritesAdded == Cardinality({ k \in 1..Len(Added) : Added[k].ev = "write" })

\* one step of _download_artifact: the pairs written are the first ones of the
\* returned response's text, in order, each under its extracted filename,
\* whatever filename is configured for the sport
WrittenUnderExtractedName ==
  pc = "download" =>
    LET retBlocks == driverReturn.content.files
    IN /\ WritesAdded <= Len(retBlocks)
       /\ outputFiles' = outputFiles \cup { retBlocks[j] : j \in 1..WritesAdded }

\* run() records the sport by the value _fetch_sport_schedule returned, and
\* that value is True only when it comes from _download_artifact
RecordedByFetchResult ==
  /\ pc = "after_fetch" =>
       /\ sportStatus' = [sportStatus EXCEPT ![index] = IF fetchResult THEN "ok" ELSE "failed"]
       /\ successful_sports' = successful_sports + (IF fetchResult THEN 1 ELSE 0)
       /\ outputFiles' = outputFiles
  /\ pc # "after_fetch" => sportStatus' = sportStatus /\ successful_sports' = successful_sports
  /\ pc # "download" => ~fetchResult'

\* C22 as stated: a sport is recorded as successfully fetched exactly when at
\* least one (filename, content) pair was extracted from its response and
\* written, each pair under its extracted filename unchanged.
FetchedIffSomePairWritten ==
  [][ /\ WrittenUnderExtractedName
      /\ RecordedByFetchResult
      /\ pc = "download" => (fetchResult' = (WritesAdded >= 1)) ]_vars

\* C22 amended: a sport is recorded as successfully fetched exactly when at
\* least one (filename, content) pair was extracted from its response and
\* every extracted pair was written; a write that raises fails the sport and
\* leaves the files written before it in the output directory.  Each pair is
\* written under its extracted filename unchanged and the extracted filename
\* is never compared with the sport's configured filename.
FetchedIffEveryPairWritten ==
  [][ /\ WrittenUnderExtractedName
      /\ RecordedByFetchResult
      /\ pc = "download" =>
           (fetchResult' = (/\ Len(driverReturn.content.files) >= 1
                            /\ WritesAdded = Len(driverReturn.content.files))) ]_vars

\* C22 witness: the first sport is counted successful while no file with its
\* configured filename was written, only the stray one; the second sport is
\* recorded as failed although its own file was written before a write raised
FetchedIffEveryPairWrittenWitness ==
  /\ sportStatus[1] = "ok"
  /\ sports[1].filename \notin outputFiles
  /\ StrayFile \in outputFiles
  /\ sportStatus[2] = "failed"
  /\ sportCause[2] = "io_error"
  /\ sports[2].filename \in outputFiles

====
